---- MODULE Spec2Model ----
(***************************************************************************)
(* A model of the GeoJSON ingestion code of postgres-connect-rust:         *)
(*   - insert_geojson / create_geo_table   (src/src/write/queries.rs)      *)
(*   - GeoJSONFile::process_geojson_file, geometry_to_wkt                   *)
(*                                          (src/src/write/utils.rs)       *)
(*   - process_file, escape_csv_field       (src/src/write/utils.rs)       *)
(*   - split_geojson                        (src/src/write/queries.rs)     *)
(*   - new_pool                             (src/src/read/db.rs)            *)
(* Strings that the code computes with (paths, WKT text, CSV records) are  *)
(* sequences of one-character strings.                                     *)
(***************************************************************************)
EXTENDS Integers, Sequences, FiniteSets, TLC

VARIABLES
    tables,     \* database: the set of table names that exist
    indexes,    \* database: the set of index names that exist
    created,    \* history: table name -> number of successful CREATE TABLE
    rows,       \* database: table name -> set of committed (visible) rows
    arg,        \* call -> the arguments of insert_geojson and the file system
    pc,         \* call -> position of insert_geojson
    paths,      \* call -> the `paths` vector
    conn,       \* call -> pool slot -> holder of the connection
    jobs,       \* call -> sequence of spawned tasks
    result,     \* call -> what insert_geojson returned
    existed,    \* history: call -> its table existed when the call began
    geom,       \* geometry encoder: the input geometry
    wkt,        \* geometry encoder: the outcome of geometry_to_wkt
    decoded,    \* geometry encoder: the reference parser's reading of wkt
    field,      \* row encoder: the three field values of a record
    record,     \* row encoder: the csv_line built from them
    parsed,     \* row encoder: the reference CSV reader's reading of record
    file,       \* process_file: what input_file holds
    pcF,        \* process_file: its position
    feature_idx, \* process_file: `idx`, the index of the feature in the loop
    locals,     \* process_file: name, properties, geometry, csv_line of that feature
    chan,       \* process_file: history of the COPY channel (open, send, close, abort)
    copied,     \* database: the records of the COPY visible in the table
    outcome,    \* process_file: what it returned, or its panic
    stream,     \* split_geojson: the values the input file holds
    chunk_size, \* split_geojson: its argument
    pos,        \* split_geojson: the number of stream items consumed
    features,   \* split_geojson: the `features` vector
    file_count, \* split_geojson: its counter of files
    written,    \* file system: the output files created, in order
    pcS,        \* split_geojson: its position
    split_result, \* split_geojson: what it returned
    pool,       \* the deadpool pool of a batch: permits, idle and created connections
    clients,    \* the clients checked out of that pool: by insert_geojson, by its tasks
    batch       \* a batch of many files: position of insert_geojson, tasks by state

vars == <<tables, indexes, created, rows, arg, pc, paths, conn, jobs, result,
          existed, geom, wkt, decoded, field, record, parsed,
          file, pcF, feature_idx, locals, chan, copied, outcome,
          stream, chunk_size, pos, features, file_count, written, pcS, split_result,
          pool, clients, batch>>

ingestVars ==
    <<tables, indexes, created, rows, arg, pc, paths, conn, jobs, result, existed>>
wktVars == <<geom, wkt, decoded>>
csvVars == <<field, record, parsed>>
copyVars == <<file, pcF, feature_idx, locals, chan, copied, outcome>>
splitVars == <<stream, chunk_size, pos, features, file_count, written, pcS, split_result>>
\* what insert_geojson leaves alone
poolVars == <<pool, clients, batch>>
restVars == <<wktVars, csvVars, copyVars, splitVars, poolVars>>

(***************************************************************************)
(* Bounds                                                                  *)
(***************************************************************************)
MaxJobs == 2        \* files found under the input paths of all invocations

\* two invocations of insert_geojson: one after the other, or concurrent
Calls == {1, 2}

(***************************************************************************)
(* Sequence helpers                                                        *)
(***************************************************************************)
Range(s) == {s[i] : i \in DOMAIN s}

\* [T]::join(sep)
RECURSIVE Join(_, _)
Join(ss, sep) ==
    IF ss = <<>> THEN <<>>
    ELSE IF Len(ss) = 1 THEN ss[1]
    ELSE ss[1] \o sep \o Join(Tail(ss), sep)

\* the index of the first occurrence of ch in s, or 0
FirstIndex(s, ch) ==
    IF \E i \in DOMAIN s : s[i] = ch
    THEN CHOOSE i \in DOMAIN s : s[i] = ch /\ \A k \in 1..(i-1) : s[k] # ch
    ELSE 0

\* the index of the last occurrence of ch in s, or 0
LastIndex(s, ch) ==
    IF \E i \in DOMAIN s : s[i] = ch
    THEN CHOOSE i \in DOMAIN s : s[i] = ch /\ \A k \in (i+1)..Len(s) : s[k] # ch
    ELSE 0

\* the sequences without repetition over S of length at most n
DistinctSeqs(S, n) ==
    {s \in UNION {[1..k -> S] : k \in 0..n} :
        \A i, k \in DOMAIN s : i # k => s[i] # s[k]}

(***************************************************************************)
(* The file system and the arguments                                       *)
(***************************************************************************)
GoodPath == <<"d", "/", "a", ".", "j">>     \* a file holding valid JSON
BadPath  == <<"d", "/", "b", ".", "j">>     \* a file holding malformed JSON
TwinPath == <<"e", "/", "a", ".", "g">>     \* valid JSON, same stem as GoodPath
Files == {GoodPath, BadPath, TwinPath}
WellFormed(path) == path # BadPath

TableNames == {"t1", "t2"}

\* what geojson_path names: nothing, one file, or a directory and the listing
\* that read_dir yields for it
Inputs ==
    {[kind |-> "missing", listing |-> <<>>]}
    \cup {[kind |-> "file", listing |-> <<p>>] : p \in Files}
    \cup {[kind |-> "dir", listing |-> l] : l \in DistinctSeqs(Files, MaxJobs)}

\* the number of files under the input paths of the calls 1..n
RECURSIVE TotalFiles(_, _)
TotalFiles(a, n) == IF n = 0 THEN 0 ELSE Len(a[n].input.listing) + TotalFiles(a, n - 1)

(***************************************************************************)
(* GeoJSONFile::process_geojson_file                                       *)
(***************************************************************************)
\* Path::file_name: the text after the last '/'
BaseName(path) == SubSeq(path, LastIndex(path, "/") + 1, Len(path))

\* the file name with a fault: the whole base name, extension included
FileStemWhole(path) == BaseName(path)

\* .split(".").next(): the text before the first '.'
FileStem(path) ==
    LET b == BaseName(path)
        d == FirstIndex(b, ".")
    IN  IF d = 0 THEN b ELSE SubSeq(b, 1, d - 1)

\* process_geojson_file with a fault: a file that is not JSON is read as an
\* empty document instead of being refused
process_geojson_file_lenient(path) ==
    [ok |-> TRUE,
     file_name |-> FileStem(path),
     json_data |-> IF WellFormed(path) THEN path ELSE <<>>]

\* Ok(GeoJSONFile {file_name, json_data}) or Err for a file that is not JSON
process_geojson_file(path) ==
    IF WellFormed(path)
    THEN [ok |-> TRUE, file_name |-> FileStem(path), json_data |-> path]
    ELSE [ok |-> FALSE, file_name |-> <<>>, json_data |-> <<>>]

(***************************************************************************)
(* The connection pool (deadpool, max_size 16)                             *)
(***************************************************************************)
max_size == 16
Slots == 1..max_size
\* who holds a connection: nobody, insert_geojson itself, or its task j
Free == <<"free">>
Main == <<"main">>
Task(j) == <<"task", j>>

FreeSlots(c) == {s \in Slots : conn[c][s] = Free}
\* the slot pool.get() hands out
NextSlot(c) == CHOOSE s \in FreeSlots(c) : \A t \in FreeSlots(c) : s <= t
Checkout(c, holder) == [conn EXCEPT ![c][NextSlot(c)] = holder]
\* dropping a client with a fault: the connection is not returned
ReleaseLeaks(cn, c, holder) == cn

\* dropping a client returns its connection
Release(cn, c, holder) ==
    [cn EXCEPT ![c] = [s \in Slots |-> IF cn[c][s] = holder THEN Free ELSE cn[c][s]]]
\* dropping the pool at the end of insert_geojson
ReleaseAll(cn, c) == [cn EXCEPT ![c] = [s \in Slots |-> Free]]

(***************************************************************************)
(* Errors and results                                                      *)
(***************************************************************************)
None == [tag |-> "none"]
Ok == [tag |-> "Ok"]
\* insert_geojson itself panicked in step `kind`
Panic(kind) == [tag |-> "panic", kind |-> kind]
\* an error value returned by insert_geojson itself
Err(kind) == [tag |-> "Err", job |-> 0, kind |-> kind, via |-> "return"]
\* tokio::task::JoinError of task j: the task panicked with message kind
JoinError(j, kind) == [tag |-> "Err", job |-> j, kind |-> kind, via |-> "panic"]
\* tokio_postgres::Error returned by task j
DbError(j, kind) == [tag |-> "Err", job |-> j, kind |-> kind, via |-> "return"]

IsErr(r) == r.tag = "Err"

\* the row encoder, process_file and split_geojson before they are called
CsvIdle ==
    /\ field = <<>>
    /\ record = None
    /\ parsed = None

CopyIdle ==
    /\ file = None
    /\ pcF = "idle"
    /\ feature_idx = 0
    /\ locals = None
    /\ chan = <<>>
    /\ copied = <<>>
    /\ outcome = None

SplitIdle ==
    /\ stream = <<>>
    /\ chunk_size = 0
    /\ pos = 0
    /\ features = <<>>
    /\ file_count = 0
    /\ written = <<>>
    /\ pcS = "idle"
    /\ split_result = None

PoolIdle ==
    /\ pool = None
    /\ clients = None
    /\ batch = None

Init ==
    /\ tables = {}
    /\ indexes = {}
    /\ created = [t \in TableNames |-> 0]
    /\ rows = [t \in TableNames |-> {}]
    /\ arg \in [Calls -> [input : Inputs, table_name : TableNames]]
    /\ arg[1].table_name = "t1"      \* the table names are interchangeable
    /\ TotalFiles(arg, Cardinality(Calls)) <= MaxJobs
    /\ pc = [c \in Calls |-> "new_pool"]
    /\ paths = [c \in Calls |-> <<>>]
    /\ conn = [c \in Calls |-> [s \in Slots |-> Free]]
    /\ jobs = [c \in Calls |-> <<>>]
    /\ result = [c \in Calls |-> None]
    /\ existed = [c \in Calls |-> FALSE]
    /\ geom = None
    /\ wkt = None
    /\ decoded = None
    /\ CsvIdle
    /\ CopyIdle
    /\ SplitIdle
    /\ PoolIdle

(***************************************************************************)
(* create_geo_table: one batch_execute of CREATE TABLE; CREATE INDEX       *)
(***************************************************************************)
IndexName(t) == <<t, "_data_idx">>

\* The outcome of the batch on the database (tbl, idx): the server runs the
\* two statements as one implicit transaction. `denied` is the server
\* refusing the statement for a reason of its own (insufficient privilege).
create_geo_table(tbl, idx, t, denied) ==
    IF denied
    THEN [res |-> Err("permission_denied"), tables |-> tbl, indexes |-> idx]
    ELSE IF t \in tbl
    THEN [res |-> Err("already_exists"), tables |-> tbl, indexes |-> idx]
    ELSE IF IndexName(t) \in idx
    THEN [res |-> Err("duplicate_index"), tables |-> tbl, indexes |-> idx]
    ELSE [res |-> Ok, tables |-> tbl \cup {t}, indexes |-> idx \cup {IndexName(t)}]

(***************************************************************************)
(* insert_geojson, up to the spawning of the tasks                         *)
(***************************************************************************)
\* `return Err(e)` / a panic of insert_geojson: the client and the pool drop
Return(c, r) ==
    /\ result' = [result EXCEPT ![c] = r]
    /\ pc' = [pc EXCEPT ![c] = "done"]

\* let pool = db::new_pool().await?;
NewPool(c) ==
    /\ pc[c] = "new_pool"
    /\ \E ok \in BOOLEAN :
        IF ok THEN /\ pc' = [pc EXCEPT ![c] = "convert_path"]
                   /\ UNCHANGED result
        ELSE Return(c, Err("build_pool"))
    /\ existed' = [existed EXCEPT ![c] = arg[c].table_name \in tables]
    /\ UNCHANGED <<tables, indexes, created, rows, arg, paths, conn, jobs, restVars>>

\* let converted_path = convert_path(geojson_path).unwrap();
ConvertPath(c) ==
    /\ pc[c] = "convert_path"
    /\ IF arg[c].input.kind = "missing"
       THEN Return(c, Panic("convert_path"))
       ELSE /\ pc' = [pc EXCEPT ![c] = "list_paths"]
            /\ UNCHANGED result
    /\ UNCHANGED <<tables, indexes, created, rows, arg, paths, conn, jobs, existed, restVars>>

\* let paths = if is_dir { get_all_file_paths(..).await? } else { vec![geojson_path] };
ListPaths(c) ==
    /\ pc[c] = "list_paths"
    /\ \E ok \in BOOLEAN :
        IF arg[c].input.kind = "dir" /\ ~ok
        THEN /\ Return(c, Err("read_dir"))
             /\ UNCHANGED paths
        ELSE /\ paths' = [paths EXCEPT ![c] = arg[c].input.listing]
             /\ pc' = [pc EXCEPT ![c] = "get_client"]
             /\ UNCHANGED result
    /\ UNCHANGED <<tables, indexes, created, rows, arg, conn, jobs, existed, restVars>>

\* let client = pool.get().await?;
GetClient(c) ==
    /\ pc[c] = "get_client"
    /\ FreeSlots(c) # {}
    /\ \E ok \in BOOLEAN :
        IF ok THEN /\ conn' = Checkout(c, Main)
                   /\ pc' = [pc EXCEPT ![c] = "create_geo_table"]
                   /\ UNCHANGED result
        ELSE /\ Return(c, Err("pool_get"))
             /\ UNCHANGED conn
    /\ UNCHANGED <<tables, indexes, created, rows, arg, paths, jobs, existed, restVars>>

\* CreateGeoTable with a fault: the tasks are spawned before the table is
\* created, so they exist when the creation error returns
CreateGeoTableAfterSpawn(c) ==
    /\ pc[c] = "create_geo_table"
    /\ \E denied \in BOOLEAN :
        LET t == arg[c].table_name
            r == create_geo_table(tables, indexes, t, denied)
        IN  /\ tables' = r.tables
            /\ indexes' = r.indexes
            /\ created' = IF r.res = Ok THEN [created EXCEPT ![t] = @ + 1] ELSE created
            /\ IF r.res = Ok
               THEN /\ pc' = [pc EXCEPT ![c] = "spawn"]
                    /\ UNCHANGED <<result, conn, jobs>>
               ELSE /\ Return(c, r.res)
                    /\ conn' = ReleaseAll(conn, c)
                    /\ jobs' = [jobs EXCEPT ![c] =
                          [i \in DOMAIN paths[c] |->
                             [path |-> paths[c][i], pc |-> "get_client",
                              pending |-> {}, res |-> None]]]
    /\ UNCHANGED <<rows, arg, paths, existed, restVars>>

\* self.create_geo_table(&client, table_name).await?;
CreateGeoTable(c) ==
    /\ pc[c] = "create_geo_table"
    /\ \E denied \in BOOLEAN :
        LET t == arg[c].table_name
            r == create_geo_table(tables, indexes, t, denied)
        IN  /\ tables' = r.tables
            /\ indexes' = r.indexes
            /\ created' = IF r.res = Ok THEN [created EXCEPT ![t] = @ + 1] ELSE created
            /\ IF r.res = Ok
               THEN /\ pc' = [pc EXCEPT ![c] = "spawn"]
                    /\ UNCHANGED <<result, conn>>
               ELSE /\ Return(c, r.res)
                    /\ conn' = ReleaseAll(conn, c)
    /\ UNCHANGED <<rows, arg, paths, jobs, existed, restVars>>

\* paths.into_iter().map(|path| tokio::spawn(..)), consumed by join_all
NewJob(path) == [path |-> path, pc |-> "get_client", pending |-> {}, res |-> None]

Spawn(c) ==
    /\ pc[c] = "spawn"
    /\ jobs' = [jobs EXCEPT ![c] = [i \in DOMAIN paths[c] |-> NewJob(paths[c][i])]]
    /\ pc' = [pc EXCEPT ![c] = "join_all"]
    /\ UNCHANGED <<tables, indexes, created, rows, arg, paths, conn, result, existed, restVars>>

(***************************************************************************)
(* One spawned task of insert_geojson                                      *)
(***************************************************************************)
\* the row the task inserts: (name, data) = (geo_file.file_name, geo_file.json_data)
RowOf(path) ==
    LET f == process_geojson_file(path)
    IN  [name |-> f.file_name, data |-> f.json_data]

\* Rollback with a fault: the rows of the dropped transaction stay
RollbackKeepsRows(rws, t, pending) == [rws EXCEPT ![t] = @ \cup pending]

\* dropping a Transaction that was not committed: ROLLBACK, the rows it
\* inserted never become visible
Rollback(rws, t, pending) == rws

\* COMMIT makes the transaction's rows visible
Commit(rws, t, pending) == [rws EXCEPT ![t] = @ \cup pending]

\* Fail with a fault: a task that failed is run again from its start
FailRetries(c, j, r) ==
    /\ jobs' = [jobs EXCEPT ![c][j] = [@ EXCEPT !.pc = "get_client", !.pending = {}]]
    /\ rows' = Rollback(rows, arg[c].table_name, jobs[c][j].pending)
    /\ conn' = Release(conn, c, Task(j))

\* The task ends with result r: by a panic (.expect) or by `?`. Its
\* transaction and its client drop: what was not committed is rolled back
\* and the connection returns to the pool.
Fail(c, j, r) ==
    /\ jobs' = [jobs EXCEPT ![c][j] = [@ EXCEPT !.pc = "done", !.pending = {}, !.res = r]]
    /\ rows' = Rollback(rows, arg[c].table_name, jobs[c][j].pending)
    /\ conn' = Release(conn, c, Task(j))

\* the task goes on to its next await
Goto(c, j, next) ==
    /\ jobs' = [jobs EXCEPT ![c][j].pc = next]
    /\ UNCHANGED <<rows, conn>>

\* let mut client = pool.get().await.expect("Failed to get client");
JobGetClient(c, j) ==
    /\ jobs[c][j].pc = "get_client"
    /\ FreeSlots(c) # {}
    /\ \E ok \in BOOLEAN :
        IF ok THEN /\ conn' = Checkout(c, Task(j))
                   /\ jobs' = [jobs EXCEPT ![c][j].pc = "process"]
                   /\ UNCHANGED rows
        ELSE Fail(c, j, JoinError(j, "get_client"))
    /\ UNCHANGED <<tables, indexes, created, arg, pc, paths, result, existed, restVars>>

\* let geo_file = GeoJSONFile::process_geojson_file(&path).await.expect(..);
JobProcessFile(c, j) ==
    /\ jobs[c][j].pc = "process"
    /\ IF process_geojson_file(jobs[c][j].path).ok
       THEN Goto(c, j, "transaction")
       ELSE Fail(c, j, JoinError(j, "process_geojson_file"))
    /\ UNCHANGED <<tables, indexes, created, arg, pc, paths, result, existed, restVars>>

\* let transaction = client.transaction().await.expect(..);
JobTransaction(c, j) ==
    /\ jobs[c][j].pc = "transaction"
    /\ \E ok \in BOOLEAN :
        IF ok THEN Goto(c, j, "execute")
        ELSE Fail(c, j, JoinError(j, "transaction"))
    /\ UNCHANGED <<tables, indexes, created, arg, pc, paths, result, existed, restVars>>

\* the names that other open transactions have inserted into table t
OpenNames(c, j, t) ==
    {r.name : r \in UNION {jobs[q[1]][q[2]].pending :
        q \in {p \in Calls \X (1..MaxJobs) :
                 /\ arg[p[1]].table_name = t
                 /\ p[2] \in DOMAIN jobs[p[1]]
                 /\ p # <<c, j>>}}}

\* transaction.execute("INSERT INTO t (name, data) VALUES ($1, $2)").await?;
\* name is UNIQUE: the insert waits for an open transaction holding the same
\* name and fails against a committed row of that name.
JobExecute(c, j) ==
    LET t == arg[c].table_name
        row == RowOf(jobs[c][j].path)
    IN  /\ jobs[c][j].pc = "execute"
        /\ row.name \notin OpenNames(c, j, t)
        /\ \E ok \in BOOLEAN :
            IF row.name \in {r.name : r \in rows[t]}
            THEN Fail(c, j, DbError(j, "unique_violation"))
            ELSE IF ok
            THEN /\ jobs' = [jobs EXCEPT ![c][j] = [@ EXCEPT !.pc = "commit", !.pending = {row}]]
                 /\ UNCHANGED <<rows, conn>>
            ELSE Fail(c, j, DbError(j, "insert"))
        /\ UNCHANGED <<tables, indexes, created, arg, pc, paths, result, existed, restVars>>

\* transaction.commit().await, the value of the task
JobCommit(c, j) ==
    /\ jobs[c][j].pc = "commit"
    /\ \E ok \in BOOLEAN :
        IF ok THEN /\ rows' = Commit(rows, arg[c].table_name, jobs[c][j].pending)
                   /\ jobs' = [jobs EXCEPT ![c][j] =
                                 [@ EXCEPT !.pc = "done", !.pending = {}, !.res = Ok]]
                   /\ conn' = Release(conn, c, Task(j))
        ELSE Fail(c, j, DbError(j, "commit"))
    /\ UNCHANGED <<tables, indexes, created, arg, pc, paths, result, existed, restVars>>

(***************************************************************************)
(* insert_geojson, after the spawning                                      *)
(***************************************************************************)
\* FoldResults with a fault, `if let Ok(r) = result { r?; }`: a panicked task
\* is passed over
FoldResultsSkipsPanics(js) ==
    IF \E i \in DOMAIN js : js[i].res.tag = "Err" /\ js[i].res.via = "return"
    THEN js[CHOOSE i \in DOMAIN js :
                /\ js[i].res.tag = "Err" /\ js[i].res.via = "return"
                /\ \A k \in 1..(i-1) :
                      ~(js[k].res.tag = "Err" /\ js[k].res.via = "return")].res
    ELSE [tag |-> "Ok"]

\* for result in results { result??; }: the first error in the order of paths
FoldResults(js) ==
    IF \E i \in DOMAIN js : IsErr(js[i].res)
    THEN js[CHOOSE i \in DOMAIN js :
                /\ IsErr(js[i].res)
                /\ \A k \in 1..(i-1) : ~IsErr(js[k].res)].res
    ELSE Ok

\* let results = join_all(futures).await; for result in results { result??; }
JoinAll(c) ==
    /\ pc[c] = "join_all"
    /\ \A j \in DOMAIN jobs[c] : jobs[c][j].pc = "done"
    /\ IF FoldResults(jobs[c]) = Ok
       THEN /\ pc' = [pc EXCEPT ![c] = "row_count"]
            /\ UNCHANGED <<result, conn>>
       ELSE /\ Return(c, FoldResults(jobs[c]))
            /\ conn' = ReleaseAll(conn, c)
    /\ UNCHANGED <<tables, indexes, created, rows, arg, paths, jobs, existed, restVars>>

\* read_queries.table_row_count(table_name).await; Ok(())
\* (PostgresQueriesRead::execute panics when it cannot connect or query)
TableRowCount(c) ==
    /\ pc[c] = "row_count"
    /\ \E ok \in BOOLEAN : Return(c, IF ok THEN Ok ELSE Panic("table_row_count"))
    /\ conn' = ReleaseAll(conn, c)
    /\ UNCHANGED <<tables, indexes, created, rows, arg, paths, jobs, existed, restVars>>

Next ==
    \/ \E c \in Calls : NewPool(c)
    \/ \E c \in Calls : ConvertPath(c)
    \/ \E c \in Calls : ListPaths(c)
    \/ \E c \in Calls : GetClient(c)
    \/ \E c \in Calls : CreateGeoTable(c)
    \/ \E c \in Calls : Spawn(c)
    \/ \E c \in Calls : \E j \in DOMAIN jobs[c] : JobGetClient(c, j)
    \/ \E c \in Calls : \E j \in DOMAIN jobs[c] : JobProcessFile(c, j)
    \/ \E c \in Calls : \E j \in DOMAIN jobs[c] : JobTransaction(c, j)
    \/ \E c \in Calls : \E j \in DOMAIN jobs[c] : JobExecute(c, j)
    \/ \E c \in Calls : \E j \in DOMAIN jobs[c] : JobCommit(c, j)
    \/ \E c \in Calls : JoinAll(c)
    \/ \E c \in Calls : TableRowCount(c)

Spec == Init /\ [][Next]_vars

(***************************************************************************)
(* Geometry values (geojson::Geometry)                                     *)
(*                                                                         *)
(* A number is an f64 with at most one decimal place, held as the integer  *)
(* ten times its value (-15 is -1.5). A position is the Vec<f64> the       *)
(* geojson parser yields: two components, or more when the file gives an   *)
(* altitude. The size of a geometry is the number of its positions, lines  *)
(* and polygons; the inputs are the geometries of size at most MaxSize.    *)
(***************************************************************************)
MaxSize == 7

Positions == {<<-15, 0>>, <<105, 7, 5>>}

\* lines (rings) of exactly n positions
LinesEq(n) == [1..n -> Positions]

\* sequences of lines of total size n (polygons, multi line strings)
RECURSIVE PolysEq(_)
PolysEq(n) ==
    IF n = 0 THEN {<<>>}
    ELSE UNION {{<<l>> \o p : l \in LinesEq(k), p \in PolysEq(n - 1 - k)} : k \in 0..(n-1)}

\* sequences of polygons of total size n
RECURSIVE MultiPolysEq(_)
MultiPolysEq(n) ==
    IF n = 0 THEN {<<>>}
    ELSE UNION {{<<p>> \o m : p \in PolysEq(k), m \in MultiPolysEq(n - 1 - k)} : k \in 0..(n-1)}

Lines == UNION {LinesEq(n) : n \in 0..MaxSize}
Polys == UNION {PolysEq(n) : n \in 0..MaxSize}
MultiPolys == UNION {MultiPolysEq(n) : n \in 0..MaxSize}

Geometry(type, coordinates) == [type |-> type, coordinates |-> coordinates]

Supported ==
    {"Point", "MultiPoint", "LineString", "MultiLineString", "Polygon", "MultiPolygon"}

Geometries ==
    {Geometry("Point", p) : p \in Positions}
    \cup {Geometry(t, l) : t \in {"MultiPoint", "LineString"}, l \in Lines}
    \cup {Geometry(t, p) : t \in {"MultiLineString", "Polygon"}, p \in Polys}
    \cup {Geometry("MultiPolygon", m) : m \in MultiPolys}
    \cup {Geometry("GeometryCollection", l) : l \in LinesEq(0) \cup LinesEq(1)}

(***************************************************************************)
(* geometry_to_wkt                                                         *)
(***************************************************************************)
Digit(d) == <<"0", "1", "2", "3", "4", "5", "6", "7", "8", "9">>[d + 1]

\* the decimal digits of a natural number
RECURSIVE Digits(_)
Digits(n) == IF n < 10 THEN <<Digit(n)>> ELSE Digits(n \div 10) \o <<Digit(n % 10)>>

\* format!("{}", x) of an f64: sign, integer part, and the fraction when
\* there is one
FormatF64(x) ==
    LET a == IF x < 0 THEN -x ELSE x
    IN  (IF x < 0 THEN <<"-">> ELSE <<>>)
        \o Digits(a \div 10)
        \o (IF a % 10 = 0 THEN <<>> ELSE <<".", Digit(a % 10)>>)

\* format!("{} {}", p[0], p[1])
FormatPosition(p) == FormatF64(p[1]) \o <<" ">> \o FormatF64(p[2])

\* format!("({})", s)
Paren(s) == <<"(">> \o s \o <<")">>

CommaSpace == <<",", " ">>

\* .collect::<Vec<_>>().join(", ")
JoinComma(ss) == Join(ss, CommaSpace)

\* line.into_iter().map(|p| format!("{} {}", p[0], p[1])) ... .join(", ")
FormatLine(line) == JoinComma([i \in DOMAIN line |-> FormatPosition(line[i])])
\* coords.into_iter().map(|p| format!("({} {})", p[0], p[1])) ... .join(", ")
FormatPoints(coords) == JoinComma([i \in DOMAIN coords |-> Paren(FormatPosition(coords[i]))])
\* .map(|ring| format!("({})", ..)) ... .join(", ")
FormatPolygon(rings) == JoinComma([i \in DOMAIN rings |-> Paren(FormatLine(rings[i]))])
\* .map(|poly| format!("({})", ..)) ... .join(", ")
FormatMultiPolygon(polys) == JoinComma([i \in DOMAIN polys |-> Paren(FormatPolygon(polys[i]))])

KwPoint == <<"P", "O", "I", "N", "T">>
KwLineString == <<"L", "I", "N", "E", "S", "T", "R", "I", "N", "G">>
KwPolygon == <<"P", "O", "L", "Y", "G", "O", "N">>
KwMulti == <<"M", "U", "L", "T", "I">>

\* the WKT keyword the code writes for a variant
Keyword(type) ==
    CASE type = "Point" -> KwPoint
      [] type = "MultiPoint" -> KwMulti \o KwPoint
      [] type = "LineString" -> KwLineString
      [] type = "MultiLineString" -> KwMulti \o KwLineString
      [] type = "Polygon" -> KwPolygon
      [] type = "MultiPolygon" -> KwMulti \o KwPolygon

WktOk(text) == [ok |-> TRUE, text |-> text]
WktErr == [ok |-> FALSE, text |-> <<>>]

\* the six arms of the match
EncodeSupported(g) ==
    LET c == g.coordinates
    IN  CASE g.type = "Point" ->
               WktOk(Keyword("Point") \o Paren(FormatPosition(c)))
          [] g.type = "MultiPoint" ->
               WktOk(Keyword("MultiPoint") \o Paren(FormatPoints(c)))
          [] g.type = "LineString" ->
               WktOk(Keyword("LineString") \o Paren(FormatLine(c)))
          [] g.type = "MultiLineString" ->
               WktOk(Keyword("MultiLineString") \o Paren(FormatPolygon(c)))
          [] g.type = "Polygon" ->
               WktOk(Keyword("Polygon") \o Paren(FormatPolygon(c)))
          [] g.type = "MultiPolygon" ->
               WktOk(Keyword("MultiPolygon") \o Paren(FormatMultiPolygon(c)))

\* geometry_to_wkt with a fault: a catch-all arm that returns an empty string
geometry_to_wkt_catch_all(g) ==
    IF g.type \in Supported THEN EncodeSupported(g) ELSE WktOk(<<>>)

geometry_to_wkt(g) ==
    IF g.type \in Supported
    THEN EncodeSupported(g)
    ELSE WktErr     \* _ => anyhow::bail!("Unsupported geometry type")

(***************************************************************************)
(* The reference WKT reader of the round-trip property: the OGC grammar    *)
(*   KEYWORD ( item {, item} )                                             *)
(* with at least one item in every list and a point of two numbers.        *)
(***************************************************************************)
ParseFail == [ok |-> FALSE, val |-> <<>>]
ParseOk(v) == [ok |-> TRUE, val |-> v]

IsDigit(ch) == \E d \in 0..9 : Digit(d) = ch
DigitVal(ch) == CHOOSE d \in 0..9 : Digit(d) = ch

RECURSIVE NatVal(_)
NatVal(s) == IF s = <<>> THEN 0 ELSE NatVal(SubSeq(s, 1, Len(s) - 1)) * 10 + DigitVal(s[Len(s)])

\* [-]digits[.digit], read as ten times its value
ParseNumber(s) ==
    LET neg == s # <<>> /\ s[1] = "-"
        body == IF neg THEN Tail(s) ELSE s
        dot == FirstIndex(body, ".")
        int == IF dot = 0 THEN body ELSE SubSeq(body, 1, dot - 1)
        frac == IF dot = 0 THEN <<>> ELSE SubSeq(body, dot + 1, Len(body))
        good == /\ int # <<>>
                /\ \A i \in DOMAIN int : IsDigit(int[i])
                /\ dot # 0 => (Len(frac) = 1 /\ IsDigit(frac[1]))
    IN  IF ~good THEN ParseFail
        ELSE LET a == NatVal(int) * 10 + (IF dot = 0 THEN 0 ELSE DigitVal(frac[1]))
             IN  ParseOk(IF neg THEN -a ELSE a)

\* number ' ' number
ParsePosition(s) ==
    LET sp == FirstIndex(s, " ")
        x == ParseNumber(SubSeq(s, 1, sp - 1))
        y == ParseNumber(SubSeq(s, sp + 1, Len(s)))
    IN  IF sp = 0 \/ ~x.ok \/ ~y.ok THEN ParseFail ELSE ParseOk(<<x.val, y.val>>)

\* the items of s between the commas outside parentheses (a blank after a
\* comma is skipped)
RECURSIVE SplitTopFrom(_, _, _, _)
SplitTopFrom(s, i, depth, cur) ==
    IF i > Len(s) THEN <<cur>>
    ELSE IF s[i] = "," /\ depth = 0
    THEN <<cur>> \o SplitTopFrom(s, IF i < Len(s) /\ s[i+1] = " " THEN i + 2 ELSE i + 1,
                                 0, <<>>)
    ELSE SplitTopFrom(s, i + 1,
                      depth + (IF s[i] = "(" THEN 1 ELSE IF s[i] = ")" THEN -1 ELSE 0),
                      Append(cur, s[i]))

SplitTop(s) == SplitTopFrom(s, 1, 0, <<>>)

\* item {, item}: every item read, or a failure
ParseItems(rs) ==
    IF \A i \in DOMAIN rs : rs[i].ok
    THEN ParseOk([i \in DOMAIN rs |-> rs[i].val])
    ELSE ParseFail

\* ( inner )
IsParen(s) == Len(s) >= 2 /\ s[1] = "(" /\ s[Len(s)] = ")"
Inner(s) == SubSeq(s, 2, Len(s) - 1)

ParseLineBody(s) ==
    LET items == SplitTop(s) IN ParseItems([i \in DOMAIN items |-> ParsePosition(items[i])])
ParseParenPosition(s) == IF IsParen(s) THEN ParsePosition(Inner(s)) ELSE ParseFail
ParseMultiPointBody(s) ==
    LET items == SplitTop(s) IN ParseItems([i \in DOMAIN items |-> ParseParenPosition(items[i])])
ParseParenLine(s) == IF IsParen(s) THEN ParseLineBody(Inner(s)) ELSE ParseFail
ParsePolygonBody(s) ==
    LET items == SplitTop(s) IN ParseItems([i \in DOMAIN items |-> ParseParenLine(items[i])])
ParseParenPolygon(s) == IF IsParen(s) THEN ParsePolygonBody(Inner(s)) ELSE ParseFail
ParseMultiPolygonBody(s) ==
    LET items == SplitTop(s) IN ParseItems([i \in DOMAIN items |-> ParseParenPolygon(items[i])])

DecodeFail == [ok |-> FALSE, type |-> "", coordinates |-> <<>>]

ParseWkt(text) ==
    LET open == FirstIndex(text, "(")
        kw == SubSeq(text, 1, open - 1)
        rest == SubSeq(text, open, Len(text))
        type == IF \E t \in Supported : Keyword(t) = kw
                THEN CHOOSE t \in Supported : Keyword(t) = kw
                ELSE ""
        body == Inner(rest)
        r == CASE ~IsParen(rest) -> ParseFail
               [] type = "Point" -> ParsePosition(body)
               [] type = "MultiPoint" -> ParseMultiPointBody(body)
               [] type = "LineString" -> ParseLineBody(body)
               [] type = "MultiLineString" -> ParsePolygonBody(body)
               [] type = "Polygon" -> ParsePolygonBody(body)
               [] type = "MultiPolygon" -> ParseMultiPolygonBody(body)
               [] OTHER -> ParseFail
    IN  IF open = 0 \/ ~r.ok THEN DecodeFail
        ELSE [ok |-> TRUE, type |-> type, coordinates |-> r.val]

(***************************************************************************)
(* The encoder applied to every input geometry                             *)
(***************************************************************************)
IngestIdle ==
    /\ tables = {}
    /\ indexes = {}
    /\ created = [t \in TableNames |-> 0]
    /\ rows = [t \in TableNames |-> {}]
    /\ arg = [c \in Calls |-> [input |-> [kind |-> "missing", listing |-> <<>>],
                               table_name |-> "t1"]]
    /\ pc = [c \in Calls |-> "done"]
    /\ paths = [c \in Calls |-> <<>>]
    /\ conn = [c \in Calls |-> [s \in Slots |-> Free]]
    /\ jobs = [c \in Calls |-> <<>>]
    /\ result = [c \in Calls |-> None]
    /\ existed = [c \in Calls |-> FALSE]

InitWkt ==
    /\ IngestIdle
    /\ geom \in Geometries
    /\ wkt = None
    /\ decoded = None
    /\ CsvIdle
    /\ CopyIdle
    /\ SplitIdle
    /\ PoolIdle

\* let geometry = geometry_to_wkt(geom)
Encode ==
    /\ wkt = None
    /\ wkt' = geometry_to_wkt(geom)
    /\ UNCHANGED <<geom, decoded, ingestVars, csvVars, copyVars, splitVars, poolVars>>

\* the reference reader applied to the text the encoder returned
Decode ==
    /\ wkt # None
    /\ wkt.ok
    /\ decoded = None
    /\ decoded' = ParseWkt(wkt.text)
    /\ UNCHANGED <<geom, wkt, ingestVars, csvVars, copyVars, splitVars, poolVars>>

NextWkt == Encode \/ Decode

SpecWkt == InitWkt /\ [][NextWkt]_vars

(***************************************************************************)
(* Properties of the geometry encoder (checked under SpecWkt)              *)
(***************************************************************************)
IsPrefix(p, s) == Len(p) <= Len(s) /\ SubSeq(s, 1, Len(p)) = p

\* the WKT keyword of each supported variant, followed by the opening parenthesis
WktHead ==
    [Point |-> <<"P", "O", "I", "N", "T", "(">>,
     MultiPoint |-> <<"M", "U", "L", "T", "I", "P", "O", "I", "N", "T", "(">>,
     LineString |-> <<"L", "I", "N", "E", "S", "T", "R", "I", "N", "G", "(">>,
     MultiLineString |->
        <<"M", "U", "L", "T", "I", "L", "I", "N", "E", "S", "T", "R", "I", "N", "G", "(">>,
     Polygon |-> <<"P", "O", "L", "Y", "G", "O", "N", "(">>,
     MultiPolygon |-> <<"M", "U", "L", "T", "I", "P", "O", "L", "Y", "G", "O", "N", "(">>]

\* C8: geometry_to_wkt returns an error and no text for a GeometryCollection
\* (any variant outside the six supported ones), and for a supported variant
\* it returns text that starts with the variant's WKT keyword.
C8_UnsupportedIsError ==
    wkt # None =>
        IF geom.type \in Supported
        THEN wkt.ok /\ IsPrefix(WktHead[geom.type], wkt.text)
        ELSE ~wkt.ok /\ wkt.text = <<>>

C8_Witness ==
    /\ wkt # None
    /\ geom.type = "GeometryCollection"
    /\ ~wkt.ok

C8_WitnessSupported ==
    /\ wkt # None
    /\ geom.type = "MultiPolygon"
    /\ Len(geom.coordinates) = 2
    /\ wkt.ok

\* the x, y part of a geometry's coordinates
XYPos(p) == <<p[1], p[2]>>
XYLine(l) == [i \in DOMAIN l |-> XYPos(l[i])]
XYPoly(rings) == [i \in DOMAIN rings |-> XYLine(rings[i])]
XYMulti(ps) == [i \in DOMAIN ps |-> XYPoly(ps[i])]
XY(g) ==
    CASE g.type = "Point" -> XYPos(g.coordinates)
      [] g.type \in {"MultiPoint", "LineString"} -> XYLine(g.coordinates)
      [] g.type \in {"MultiLineString", "Polygon"} -> XYPoly(g.coordinates)
      [] g.type = "MultiPolygon" -> XYMulti(g.coordinates)

\* a list of the geometry, at any level of nesting, has no member
HasEmptySequence(g) ==
    LET c == g.coordinates
    IN  CASE g.type \in {"MultiPoint", "LineString"} -> c = <<>>
          [] g.type \in {"MultiLineString", "Polygon"} ->
                c = <<>> \/ \E i \in DOMAIN c : c[i] = <<>>
          [] g.type = "MultiPolygon" ->
                \/ c = <<>>
                \/ \E i \in DOMAIN c : c[i] = <<>>
                \/ \E i \in DOMAIN c : \E k \in DOMAIN c[i] : c[i][k] = <<>>
          [] OTHER -> FALSE

\* a position of the geometry has more or fewer than two components
HasOddPosition(g) ==
    LET c == g.coordinates
    IN  CASE g.type = "Point" -> Len(c) # 2
          [] g.type \in {"MultiPoint", "LineString"} -> \E i \in DOMAIN c : Len(c[i]) # 2
          [] g.type \in {"MultiLineString", "Polygon"} ->
                \E i \in DOMAIN c : \E k \in DOMAIN c[i] : Len(c[i][k]) # 2
          [] g.type = "MultiPolygon" ->
                \E i \in DOMAIN c : \E k \in DOMAIN c[i] :
                    \E m \in DOMAIN c[i][k] : Len(c[i][k][m]) # 2
          [] OTHER -> FALSE

\* C9: for every geometry of a supported variant, the reference reader
\* applied to the text of geometry_to_wkt gives back the variant, the nesting,
\* the order and the x, y values of the geometry.
C9_RoundTrip ==
    decoded # None =>
        /\ decoded.ok
        /\ decoded.type = geom.type
        /\ decoded.coordinates = XY(geom)

\* the round trip of the geometries all of whose lists have a member
RoundTripNonEmpty ==
    (decoded # None /\ ~HasEmptySequence(geom)) =>
        /\ decoded.ok
        /\ decoded.type = geom.type
        /\ decoded.coordinates = XY(geom)

RoundTripNonEmptyWitness ==
    /\ decoded # None
    /\ geom.type = "MultiPolygon"
    /\ Len(geom.coordinates) = 2
    /\ ~HasEmptySequence(geom)
    /\ HasOddPosition(geom)
    /\ decoded.ok

\* C10: a geometry with an empty coordinate sequence, or with a position
\* that does not have exactly two components, is rejected by the encoder
\* with an error: no WKT text is produced for it.
C10_InvalidRejected ==
    (wkt # None /\ geom.type \in Supported
        /\ (HasEmptySequence(geom) \/ HasOddPosition(geom))) => ~wkt.ok

\* what the encoder does instead: it always returns text for a supported
\* variant, writing () for an empty list
EmptyEncodedAsEmptyParens ==
    (wkt # None /\ geom.type = "LineString" /\ geom.coordinates = <<>>) =>
        (wkt.ok /\ wkt.text = WktHead.LineString \o <<")">>)

(***************************************************************************)
(* Properties of insert_geojson (checked under Spec)                       *)
(***************************************************************************)
Tasks == {q \in Calls \X (1..MaxJobs) : q[2] \in DOMAIN jobs[q[1]]}
Job(q) == jobs[q[1]][q[2]]
TableOf(q) == arg[q[1]].table_name

\* insert_geojson has awaited join_all: its tasks were spawned and all ended
Joined(c) ==
    \/ pc[c] = "row_count"
    \/ /\ pc[c] = "done"
       /\ \/ result[c] = Ok
          \/ result[c] = Panic("table_row_count")
          \/ IsErr(result[c]) /\ result[c].job # 0

Failed(c) == {j \in DOMAIN jobs[c] : jobs[c][j].pc = "done" /\ jobs[c][j].res # Ok}

\* C1: a table holds exactly the rows of the tasks whose transaction
\* committed: the row of a task that failed or has not committed is not
\* visible, a task holds an uncommitted row only between its successful
\* insert and its commit, and commit is issued only with the insert done.
C1_PerFileAtomicity ==
    /\ \A t \in TableNames :
         rows[t] = {RowOf(Job(q).path) : q \in {r \in Tasks : TableOf(r) = t /\ Job(r).res = Ok}}
    /\ \A q \in Tasks :
         /\ Job(q).res # Ok => RowOf(Job(q).path) \notin rows[TableOf(q)]
         /\ Job(q).pc = "commit" => Job(q).pending = {RowOf(Job(q).path)}
         /\ Job(q).pc # "commit" => Job(q).pending = {}

\* a task whose commit failed after its insert succeeded, beside a task
\* that committed
C1_Witness ==
    \E c \in Calls : \E i, k \in DOMAIN jobs[c] :
        /\ jobs[c][i].res = DbError(i, "commit")
        /\ jobs[c][k].res = Ok
        /\ rows[arg[c].table_name] = {RowOf(jobs[c][k].path)}

C2_WitnessOk ==
    \E c \in Calls : result[c] = Ok /\ Len(jobs[c]) = 2

\* the tasks an aggregate result names
Reported(r) == IF IsErr(r) THEN {r.job} ELSE {}

\* C3: the result returned for a batch names every task that failed.
C3_EveryFailureReported ==
    \A c \in Calls :
        (pc[c] = "done" /\ Joined(c)) => Failed(c) \subseteq Reported(result[c])

\* the task's result is a failure of the database or the pool, not of the file
EnvFault(r) == IsErr(r) /\ r.kind \in {"get_client", "transaction", "insert", "commit"}

\* C4: in a batch over a directory with the well-formed and the malformed
\* file, when the pool and the database serve both tasks, the well-formed
\* file's task commits, the malformed file's task is the failure reported,
\* and the table holds exactly the row of the well-formed file.
C4_FailureIsIsolated ==
    \A c \in Calls :
        (/\ pc[c] = "done"
         /\ Joined(c)
         /\ Range(arg[c].input.listing) = {GoodPath, BadPath}
         /\ \A j \in DOMAIN jobs[c] : ~EnvFault(jobs[c][j].res))
        => \E g, b \in DOMAIN jobs[c] :
             /\ jobs[c][g].path = GoodPath
             /\ jobs[c][b].path = BadPath
             /\ jobs[c][g].res = Ok
             /\ jobs[c][b].res = JoinError(b, "process_geojson_file")
             /\ result[c] = jobs[c][b].res
             /\ rows[arg[c].table_name] = {RowOf(GoodPath)}

C4_Witness ==
    \E c \in Calls :
        /\ pc[c] = "done"
        /\ arg[c].input.listing = <<BadPath, GoodPath>>
        /\ Len(jobs[c]) = 2
        /\ jobs[c][2].res = Ok
        /\ result[c] = JoinError(1, "process_geojson_file")
        /\ rows[arg[c].table_name] = {RowOf(GoodPath)}

\* C5: a call for a table that exists when the call begins never fails in
\* the schema step with "already exists".
C5_CreateIsIdempotent ==
    \A c \in Calls : existed[c] => result[c] # Err("already_exists")

\* C6: calls that begin while their table does not exist never observe
\* "already exists" or a duplicate index, and the table is created once.
C6_ConcurrentCreateSucceeds ==
    \A c \in Calls :
        (pc[c] # "new_pool" /\ ~existed[c]) =>
            /\ result[c] \notin {Err("already_exists"), Err("duplicate_index")}
            /\ created[arg[c].table_name] <= 1

\* C7: when create_geo_table fails for a reason other than "already
\* exists", insert_geojson returns that error and has spawned no task: no
\* transaction was opened, no insert attempted, no connection is held.
C7_SchemaErrorAbortsBatch ==
    \A c \in Calls :
        (IsErr(result[c]) /\ result[c].job = 0
            /\ result[c].kind \in {"permission_denied", "duplicate_index"})
        => /\ pc[c] = "done"
           /\ jobs[c] = <<>>
           /\ FreeSlots(c) = Slots

\* the creation was refused for a call that had files to ingest
C7_Witness ==
    \E c \in Calls :
        /\ result[c] = Err("permission_denied")
        /\ Len(paths[c]) = 2
        /\ jobs[c] = <<>>

(***************************************************************************)
(* The row encoder: escape_csv_field and the csv_line of process_file      *)
(***************************************************************************)
Comma == ","
Quote == "\""
Newline == "\n"

\* field.contains(',') || field.contains('"') || field.contains('\n')
NeedsQuoting(f) == \E i \in DOMAIN f : f[i] \in {Comma, Quote, Newline}

\* field.replace('"', "\"\"")
RECURSIVE DoubleQuotes(_)
DoubleQuotes(f) ==
    IF f = <<>> THEN <<>>
    ELSE (IF f[1] = Quote THEN <<Quote, Quote>> ELSE <<f[1]>>) \o DoubleQuotes(Tail(f))

\* escape_csv_field with a fault: the field is wrapped but its quotes are
\* not doubled
escape_csv_field_undoubled(f) ==
    IF NeedsQuoting(f) THEN <<Quote>> \o f \o <<Quote>> ELSE f

escape_csv_field(f) ==
    IF NeedsQuoting(f) THEN <<Quote>> \o DoubleQuotes(f) \o <<Quote>> ELSE f

\* format!("{},{},{}\n", escape_csv_field(&name), escape_csv_field(&properties),
\*         escape_csv_field(&geometry))
format_csv_line(name, properties, geometry) ==
    escape_csv_field(name) \o <<Comma>> \o escape_csv_field(properties)
        \o <<Comma>> \o escape_csv_field(geometry) \o <<Newline>>

(***************************************************************************)
(* The reference reader of the delimited format (RFC 4180 with records     *)
(* ended by a line feed): a field is either text without comma, quote or   *)
(* line feed, or a quoted text in which a quote is written twice.          *)
(***************************************************************************)
CsvFail == [ok |-> FALSE, records |-> <<>>]

\* st: "start" of a field, in an "unquoted" field, in a "quoted" field, or
\* "afterquote": a quote was read inside a quoted field
RECURSIVE CsvScan(_, _, _, _, _, _)
CsvScan(s, i, st, cur, fields, recs) ==
    IF i > Len(s)
    THEN IF st = "quoted" THEN CsvFail
         ELSE IF st = "start" /\ fields = <<>> THEN [ok |-> TRUE, records |-> recs]
         ELSE [ok |-> TRUE, records |-> Append(recs, Append(fields, cur))]
    ELSE LET ch == s[i]
         IN  CASE st = "quoted" /\ ch = Quote -> CsvScan(s, i + 1, "afterquote", cur, fields, recs)
               [] st = "quoted" /\ ch # Quote -> CsvScan(s, i + 1, "quoted", Append(cur, ch), fields, recs)
               [] st = "afterquote" /\ ch = Quote ->
                     CsvScan(s, i + 1, "quoted", Append(cur, Quote), fields, recs)
               [] st # "quoted" /\ ch = Comma ->
                     CsvScan(s, i + 1, "start", <<>>, Append(fields, cur), recs)
               [] st # "quoted" /\ ch = Newline ->
                     CsvScan(s, i + 1, "start", <<>>, <<>>, Append(recs, Append(fields, cur)))
               [] st = "start" /\ ch = Quote -> CsvScan(s, i + 1, "quoted", <<>>, fields, recs)
               [] st = "start" /\ ch \notin {Quote, Comma, Newline} ->
                     CsvScan(s, i + 1, "unquoted", <<ch>>, fields, recs)
               [] st = "unquoted" /\ ch \notin {Quote, Comma, Newline} ->
                     CsvScan(s, i + 1, "unquoted", Append(cur, ch), fields, recs)
               [] OTHER -> CsvFail

ParseCsv(text) == CsvScan(text, 1, "start", <<>>, <<>>, <<>>)

(***************************************************************************)
(* The row encoder applied to every triple of field values                 *)
(***************************************************************************)
MaxFieldChars == 4      \* characters in the three fields of a record together

Alphabet == {"a", Comma, Quote, Newline}
StringsEq(n) == [1..n -> Alphabet]

\* (name, properties, geometry) of MaxFieldChars characters at most
FieldTriples ==
    UNION {{<<a, b, c>> : a \in StringsEq(k[1]), b \in StringsEq(k[2]), c \in StringsEq(k[3])} :
             k \in {m \in (0..MaxFieldChars) \X (0..MaxFieldChars) \X (0..MaxFieldChars) :
                      m[1] + m[2] + m[3] <= MaxFieldChars}}

InitCsv ==
    /\ IngestIdle
    /\ geom = None
    /\ wkt = None
    /\ decoded = None
    /\ CopyIdle
    /\ SplitIdle
    /\ PoolIdle
    /\ field \in FieldTriples
    /\ record = None
    /\ parsed = None

\* let csv_line = format!("{},{},{}\n", ..)
EscapeFields ==
    /\ record = None
    /\ record' = [escaped |-> [i \in 1..3 |-> escape_csv_field(field[i])],
                  line |-> format_csv_line(field[1], field[2], field[3])]
    /\ UNCHANGED <<field, parsed, ingestVars, wktVars, copyVars, splitVars, poolVars>>

\* the reference reader applied to the csv_line
ReadRecord ==
    /\ record # None
    /\ parsed = None
    /\ parsed' = ParseCsv(record.line)
    /\ UNCHANGED <<field, record, ingestVars, wktVars, copyVars, splitVars, poolVars>>

NextCsv == EscapeFields \/ ReadRecord

SpecCsv == InitCsv /\ [][NextCsv]_vars

(***************************************************************************)
(* Properties of the row encoder (checked under SpecCsv)                   *)
(***************************************************************************)
QuoteCount(f) == Cardinality({i \in DOMAIN f : f[i] = Quote})

\* every quote of e stands in a pair of adjacent quotes
QuotesPaired(e) ==
    \E starts \in SUBSET (DOMAIN e) :
        /\ \A i \in starts : i + 1 \in DOMAIN e /\ e[i] = Quote /\ e[i + 1] = Quote
        /\ \A i, k \in starts : i # k => (i + 1 # k /\ k + 1 # i)
        /\ \A i \in DOMAIN e : e[i] = Quote => (i \in starts \/ i - 1 \in starts)

\* C11: escape_csv_field wraps a field in double quotes, with every inner
\* quote doubled, exactly when the field has a comma, a double quote or a
\* newline, and leaves it as it is otherwise; the reference reader applied
\* to the record of three escaped fields gives back one record with the
\* three original values.
C11_CsvRoundTrip ==
    /\ record # None =>
         \A i \in 1..3 :
            LET f == field[i]
                e == record.escaped[i]
            IN  IF \E k \in DOMAIN f : f[k] = "," \/ f[k] = "\"" \/ f[k] = "\n"
                THEN /\ Len(e) = Len(f) + QuoteCount(f) + 2
                     /\ e[1] = "\"" /\ e[Len(e)] = "\""
                     /\ QuotesPaired(SubSeq(e, 2, Len(e) - 1))
                     /\ QuoteCount(e) = 2 * QuoteCount(f) + 2
                ELSE e = f
    /\ parsed # None => (parsed.ok /\ parsed.records = <<field>>)

\* a field with a comma, a quote and a newline went through the reader
C11_Witness ==
    /\ parsed # None
    /\ field[2] = <<",", "\"", "\n">>
    /\ field[1] = <<"a">>
    /\ parsed.records = <<field>>

(***************************************************************************)
(* process_file: the features of a file and their records                  *)
(***************************************************************************)
MaxFeatures == 4        \* features in a FeatureCollection

\* geojson::feature::Id, or no id
NoId == [kind |-> "none", text |-> <<>>, number |-> 0]
StringId(s) == [kind |-> "string", text |-> s, number |-> 0]
NumberId(n) == [kind |-> "number", text |-> <<>>, number |-> n]

\* Option<JsonObject>: no properties, or members (key, string value) in order
NoProperties == [present |-> FALSE, members |-> <<>>]
Properties(members) == [present |-> TRUE, members |-> members]

Backslash == "\\"

\* serde_json's writing of a string: quotes, backslashes and line feeds escaped
RECURSIVE JsonEscape(_)
JsonEscape(t) ==
    IF t = <<>> THEN <<>>
    ELSE (CASE t[1] = Quote -> <<Backslash, Quote>>
            [] t[1] = Backslash -> <<Backslash, Backslash>>
            [] t[1] = Newline -> <<Backslash, "n">>
            [] OTHER -> <<t[1]>>) \o JsonEscape(Tail(t))

JsonString(t) == <<Quote>> \o JsonEscape(t) \o <<Quote>>

\* serde_json::to_string(&feature.properties)
to_string(properties) ==
    IF ~properties.present THEN <<"n", "u", "l", "l">>
    ELSE <<"{">>
         \o Join([i \in DOMAIN properties.members |->
                     JsonString(properties.members[i][1]) \o <<":">>
                        \o JsonString(properties.members[i][2])], <<Comma>>)
         \o <<"}">>

Feature(id, properties, geometry) ==
    [id |-> id, properties |-> properties, geometry |-> geometry]

\* the features a file may hold
Features ==
    {Feature(NoId, NoProperties, Geometry("Point", <<-15, 0>>)),
     Feature(StringId(<<"x", Comma, "y">>),
             Properties(<< <<<<"k">>, <<"a", Quote>>>> >>), None),
     Feature(NumberId(12), Properties(<<>>),
             Geometry("LineString", << <<-15, 0>>, <<105, 7, 5>> >>)),
     Feature(NoId, Properties(<< <<<<"k">>, <<"v">>>>, <<<<"m">>, <<Newline>>>> >>),
             Geometry("GeometryCollection", <<>>))}

\* what input_file holds: nothing, text that is not GeoJSON, or a GeoJSON value
GeoJsonFile(top, fs) == [top |-> top, features |-> fs]
InputFiles ==
    {GeoJsonFile(t, <<>>) : t \in {"missing", "malformed", "Feature", "Geometry"}}
    \cup {GeoJsonFile("FeatureCollection", fs) :
            fs \in UNION {[1..n -> Features] : n \in 0..MaxFeatures}}

\* feature.id with a fault: the fallback label counts from one
feature_name_one_based(feature, i) ==
    CASE feature.id.kind = "string" -> feature.id.text
      [] feature.id.kind = "number" -> Digits(feature.id.number)
      [] OTHER -> <<"u", "n", "k", "n", "o", "w", "n", "_">> \o Digits(i + 1)

\* let name = match feature.id { String(s) => s.clone(), Number(n) => n.to_string(),
\*                               None => format!("unknown_{}", idx) };
feature_name(feature, i) ==
    CASE feature.id.kind = "string" -> feature.id.text
      [] feature.id.kind = "number" -> Digits(feature.id.number)
      [] OTHER -> <<"u", "n", "k", "n", "o", "w", "n", "_">> \o Digits(i)

\* let geometry = match feature.geometry { Some(geom) => geometry_to_wkt(geom).expect(..),
\*                                         None => "NULL".to_string() };
feature_geometry(feature) ==
    IF feature.geometry = None THEN WktOk(<<"N", "U", "L", "L">>)
    ELSE geometry_to_wkt(feature.geometry)

\* the locals of the loop body for the feature at index i
EncodeRow(feature, i) ==
    LET name == feature_name(feature, i)
        properties == to_string(feature.properties)
        geometry == feature_geometry(feature).text
    IN  [name |-> name, properties |-> properties, geometry |-> geometry,
         csv_line |-> format_csv_line(name, properties, geometry)]

\* match geojson { FeatureCollection(fc) => fc.features, _ => return Err(..) }
\* with a fault: any other value is taken for an empty collection
match_feature_collection_any(f) ==
    IF f.top = "FeatureCollection" THEN [ok |-> TRUE, features |-> f.features]
    ELSE [ok |-> TRUE, features |-> <<>>]

match_feature_collection(f) ==
    IF f.top = "FeatureCollection" THEN [ok |-> TRUE, features |-> f.features]
    ELSE [ok |-> FALSE, features |-> <<>>]

(***************************************************************************)
(* process_file: the COPY channel (tokio_postgres CopyInSink)              *)
(***************************************************************************)
Event(op, line) == [op |-> op, line |-> line]

\* the lines sent on the channel, in order
Sent(ch) ==
    LET sends == SelectSeq(ch, LAMBDA e : e.op = "send")
    IN  [i \in DOMAIN sends |-> sends[i].line]

\* dropping the sink with a fault: the drop completes the COPY
DropSinkFinishes(ch) == Append(ch, Event("close", <<>>))

\* a panic unwinds through `sink`: a CopyInSink dropped before close makes
\* the connection send CopyFail
DropSink(ch) == Append(ch, Event("abort", <<>>))

\* the aborted COPY with a fault: the lines received so far are stored
AbortCopyKeepsSent(lines) == lines

\* the rows of an aborted (or failed) COPY statement: none
AbortCopy(lines) == <<>>

\* the rows of a completed COPY statement
FinishCopy(lines) == lines

\* .enumerate() with a fault: the index moves on by two
AdvanceSkips(i) == i + 2

\* for (idx, feature) in features.into_iter().enumerate(): the next index
Advance(i) == i + 1

\* the `features` vector of process_file
FeaturesOf(f) == match_feature_collection(f).features

InitCopy ==
    /\ IngestIdle
    /\ geom = None
    /\ wkt = None
    /\ decoded = None
    /\ CsvIdle
    /\ SplitIdle
    /\ PoolIdle
    /\ file \in InputFiles
    /\ pcF = "open_file"
    /\ feature_idx = 0
    /\ locals = None
    /\ chan = <<>>
    /\ copied = <<>>
    /\ outcome = None

copyRest == <<ingestVars, wktVars, csvVars, splitVars, poolVars>>

\* process_file ends with r before the channel exists
Finish(r) ==
    /\ outcome' = r
    /\ pcF' = "done"
    /\ UNCHANGED <<chan, copied>>

\* process_file panics while the channel is open: the sink drops
Unwind(r) ==
    /\ outcome' = r
    /\ pcF' = "done"
    /\ chan' = DropSink(chan)
    /\ copied' = AbortCopy(Sent(chan))

\* let file = File::open(input_file).expect(..);
OpenFile ==
    /\ pcF = "open_file"
    /\ IF file.top = "missing"
       THEN Finish(Panic("open"))
       ELSE /\ pcF' = "parse"
            /\ UNCHANGED <<outcome, chan, copied>>
    /\ UNCHANGED <<file, feature_idx, locals, copyRest>>

\* let geojson: GeoJson = serde_json::from_reader(reader).expect(..);
\* let features = match geojson { .. };
ParseGeoJson ==
    /\ pcF = "parse"
    /\ IF file.top = "malformed"
       THEN Finish(Panic("parse"))
       ELSE IF match_feature_collection(file).ok
       THEN /\ pcF' = "copy_in"
            /\ UNCHANGED <<outcome, chan, copied>>
       ELSE Finish(Err("not_a_feature_collection"))
    /\ UNCHANGED <<file, feature_idx, locals, copyRest>>

\* let mut sink = Box::pin(client.copy_in(&stmt).await.expect(..));
CopyIn ==
    /\ pcF = "copy_in"
    /\ \E ok \in BOOLEAN :
        IF ok THEN /\ chan' = <<Event("open", <<>>)>>
                   /\ pcF' = "loop"
                   /\ UNCHANGED <<outcome, copied>>
        ELSE Finish(Panic("copy_in"))
    /\ UNCHANGED <<file, feature_idx, locals, copyRest>>

\* the head of the loop and the body up to csv_line
EncodeFeature ==
    /\ pcF = "loop"
    /\ IF feature_idx >= Len(FeaturesOf(file))
       THEN /\ pcF' = "close"
            /\ UNCHANGED <<locals, outcome, chan, copied>>
       ELSE LET feature == FeaturesOf(file)[feature_idx + 1]
            IN  IF feature_geometry(feature).ok
                THEN /\ locals' = EncodeRow(feature, feature_idx)
                     /\ pcF' = "send"
                     /\ UNCHANGED <<outcome, chan, copied>>
                ELSE /\ Unwind(Panic("geometry_to_wkt"))
                     /\ UNCHANGED locals
    /\ UNCHANGED <<file, feature_idx, copyRest>>

\* sink.send(bytes).await.expect("Failed to send bytes");
Send ==
    /\ pcF = "send"
    /\ \E ok \in BOOLEAN :
        IF ok THEN /\ chan' = Append(chan, Event("send", locals.csv_line))
                   /\ feature_idx' = Advance(feature_idx)
                   /\ pcF' = "loop"
                   /\ UNCHANGED <<outcome, copied>>
        ELSE /\ Unwind(Panic("send"))
             /\ UNCHANGED feature_idx
    /\ UNCHANGED <<file, locals, copyRest>>

\* sink.close().await.expect("Failed to close sink"); Ok(())
Close ==
    /\ pcF = "close"
    /\ chan' = Append(chan, Event("close", <<>>))
    /\ pcF' = "done"
    /\ \E ok \in BOOLEAN :
        IF ok THEN /\ copied' = FinishCopy(Sent(chan))
                   /\ outcome' = Ok
        ELSE /\ copied' = AbortCopy(Sent(chan))
             /\ outcome' = Panic("close")
    /\ UNCHANGED <<file, feature_idx, locals, copyRest>>

NextCopy == OpenFile \/ ParseGeoJson \/ CopyIn \/ EncodeFeature \/ Send \/ Close

SpecCopy == InitCopy /\ [][NextCopy]_vars

(***************************************************************************)
(* Properties of process_file (checked under SpecCopy)                     *)
(***************************************************************************)
UnknownPrefix == <<"u", "n", "k", "n", "o", "w", "n", "_">>
\* the decimal text of the indexes 0..9 and of the numeric ids of Features
IndexText == <<"0", "1", "2", "3", "4", "5", "6", "7", "8", "9">>
DecimalText(n) == IF n = 12 THEN <<"1", "2">> ELSE <<IndexText[n + 1]>>

\* C12: the name of the record of the feature at zero-based position i of
\* its file is the id when the id is a string, the decimal text of the id
\* when it is a number, and unknown_<i> when there is no id (unknown_3 at
\* position 3), i being the position among all the features of the file;
\* that name is the first field of the record.
C12_NameResolution ==
    pcF = "send" =>
        LET i == feature_idx
            f == file.features[i + 1]
        IN  /\ Len(Sent(chan)) = i
            /\ f.id.kind = "string" => locals.name = f.id.text
            /\ f.id.kind = "number" => locals.name = DecimalText(f.id.number)
            /\ f.id.kind = "none" => locals.name = UnknownPrefix \o <<IndexText[i + 1]>>
            /\ (f.id.kind = "none" /\ i = 3) =>
                  locals.name = <<"u", "n", "k", "n", "o", "w", "n", "_", "3">>
            /\ f.id.kind # "string" => IsPrefix(locals.name \o <<",">>, locals.csv_line)

\* a feature without id at position 3, after features that have an id
C12_Witness ==
    /\ pcF = "send"
    /\ feature_idx = 3
    /\ file.features[4].id.kind = "none"
    /\ file.features[1].id.kind = "string"
    /\ file.features[2].id.kind = "number"
    /\ locals.name = <<"u", "n", "k", "n", "o", "w", "n", "_", "3">>

\* C13: on a file whose top-level value is not a FeatureCollection,
\* process_file returns an error, and the COPY channel is never opened: no
\* COPY statement, no record sent, nothing stored.
C13_NotFeatureCollectionIsError ==
    file # None /\ file.top \in {"Feature", "Geometry"} =>
        /\ chan = <<>>
        /\ copied = <<>>
        /\ pcF \in {"open_file", "parse", "done"}
        /\ pcF = "done" => outcome = [tag |-> "Err", job |-> 0,
                                      kind |-> "not_a_feature_collection", via |-> "return"]

C13_Witness ==
    /\ file # None
    /\ file.top = "Feature"
    /\ pcF = "done"
    /\ outcome.tag = "Err"
    /\ chan = <<>>

Ops(ch) == [i \in DOMAIN ch |-> ch[i].op]
Count(ch, op) == Cardinality({i \in DOMAIN ch : ch[i].op = op})

\* C16: the channel goes through open, then sends, then at most one close;
\* close is issued only after the record of the last feature was sent, it is
\* issued once when process_file returns Ok, and when opening, encoding or a
\* send fails the channel is never closed.
C16_ChannelProtocol ==
    /\ chan # <<>> =>
          /\ chan[1].op = "open"
          /\ Count(chan, "open") = 1
          /\ \A i \in 2..Len(chan) :
                \/ chan[i].op = "send"
                \/ i = Len(chan) /\ chan[i].op \in {"close", "abort"}
    /\ Count(chan, "close") <= 1
    /\ Count(chan, "close") = 1 =>
          /\ pcF = "done"
          /\ Count(chan, "send") = Len(file.features)
    /\ outcome = Ok => Count(chan, "close") = 1
    /\ (outcome # None /\ outcome.tag = "panic"
          /\ outcome.kind \in {"copy_in", "geometry_to_wkt", "send"}) =>
          Count(chan, "close") = 0

\* an encoding failure after two records were sent: the channel was not closed
C16_Witness ==
    /\ outcome # None
    /\ outcome.tag = "panic"
    /\ outcome.kind = "geometry_to_wkt"
    /\ Ops(chan) = <<"open", "send", "send", "abort">>

C16_WitnessClosed ==
    /\ outcome = Ok
    /\ Ops(chan) = <<"open", "send", "send", "send", "close">>

\* C17: when process_file fails at feature k after having sent the records
\* of the features before it, no row of the file is visible in the table;
\* rows are visible only once process_file has returned Ok.
C17_FailedLoadInvisible ==
    /\ outcome # Ok => copied = <<>>
    /\ (outcome # None /\ outcome.tag = "panic") => copied = <<>>

\* a send that failed after three records were sent
C17_Witness ==
    /\ outcome # None
    /\ outcome.tag = "panic"
    /\ outcome.kind = "send"
    /\ Len(Sent(chan)) = 3
    /\ copied = <<>>

\* the records of the features of the file, in the order of the file
Records(f) == [i \in DOMAIN f.features |-> EncodeRow(f.features[i], i - 1).csv_line]

\* C18: the records sent on the channel are, in order, the records of the
\* first features of the file: none skipped, none sent twice, none out of
\* order; a load that returned Ok sent and stored them all.
C18_RecordOrder ==
    file # None =>
        /\ IsPrefix(Sent(chan), Records(file))
        /\ outcome = Ok => (Sent(chan) = Records(file) /\ copied = Records(file))

\* a load of three different features completed
C18_Witness ==
    /\ outcome = Ok
    /\ Len(copied) = 3
    /\ \A i, k \in 1..3 : i # k => file.features[i] # file.features[k]

(***************************************************************************)
(* More properties of insert_geojson (checked under Spec)                  *)
(***************************************************************************)
\* C14: insert_geojson called with a path that does not exist returns an
\* Err value (it does not panic), having created no table, spawned no task
\* and inserted no row.
C14_MissingPathReturnsErr ==
    \A c \in Calls :
        (arg[c].input.kind = "missing" /\ pc[c] = "done") =>
            /\ IsErr(result[c])
            /\ jobs[c] = <<>>
            /\ FreeSlots(c) = Slots

\* what the code does on a missing path once the pool is built: it panics
\* in convert_path(..).unwrap(), before the table, the tasks and the rows
MissingPathPanics ==
    \A c \in Calls :
        (arg[c].input.kind = "missing" /\ pc[c] = "done") =>
            /\ result[c] \in {Panic("convert_path"), Err("build_pool")}
            /\ jobs[c] = <<>>
            /\ FreeSlots(c) = Slots

(***************************************************************************)
(* split_geojson                                                           *)
(***************************************************************************)
MaxValues == 4      \* JSON values in the input file
MaxChunk == 3       \* the largest chunk_size

Values == {"a", "b"}

\* The input file: it may not exist; it holds a sequence of JSON values,
\* and `failed` says that text which is not JSON follows them (the stream
\* deserializer yields one Err and then ends).
SplitInputs ==
    {[exists |-> FALSE, items |-> <<>>, failed |-> FALSE]}
    \cup {[exists |-> TRUE, items |-> v, failed |-> f] :
            v \in UNION {[1..n -> Values] : n \in 0..MaxValues}, f \in BOOLEAN}

InitSplit ==
    /\ IngestIdle
    /\ geom = None
    /\ wkt = None
    /\ decoded = None
    /\ CsvIdle
    /\ CopyIdle
    /\ PoolIdle
    /\ stream \in SplitInputs
    /\ chunk_size \in 0..MaxChunk
    /\ pos = 0
    /\ features = <<>>
    /\ file_count = 0
    /\ written = <<>>
    /\ pcS = "open"
    /\ split_result = None

splitRest == <<ingestVars, wktVars, csvVars, copyVars, poolVars>>

\* File::create(&output_file)?; writeln!(writer, "{}", ..)?; writer.flush()?;
\* the file split_geojson_count_{file_count}-{file_name}.geojson with the
\* values of `features`
OutputFile(count, values) == [count |-> count, values |-> values]

\* let file = File::open(input_file).expect(..);
SplitOpen ==
    /\ pcS = "open"
    /\ IF stream.exists
       THEN /\ pcS' = "loop"
            /\ UNCHANGED split_result
       ELSE /\ pcS' = "done"
            /\ split_result' = Panic("open")
    /\ UNCHANGED <<stream, chunk_size, pos, features, file_count, written, splitRest>>

\* one iteration of `for feature in stream`, or its end
SplitNext ==
    /\ pcS = "loop"
    /\ IF pos < Len(stream.items)
       THEN LET pushed == Append(features, stream.items[pos + 1])
            IN  /\ pos' = pos + 1
                /\ IF Len(pushed) >= chunk_size
                   THEN \E ok \in BOOLEAN :
                          IF ok
                          THEN /\ written' = Append(written, OutputFile(file_count, pushed))
                               /\ features' = <<>>
                               /\ file_count' = file_count + 1
                               /\ UNCHANGED <<pcS, split_result>>
                          ELSE /\ features' = pushed
                               /\ pcS' = "done"
                               /\ split_result' = Err("io")
                               /\ UNCHANGED <<written, file_count>>
                   ELSE /\ features' = pushed
                        /\ UNCHANGED <<written, file_count, pcS, split_result>>
       ELSE IF pos = Len(stream.items) /\ stream.failed
       THEN \* if let Ok(f) = feature: an Err is passed over
            /\ pos' = pos + 1
            /\ UNCHANGED <<features, written, file_count, pcS, split_result>>
       ELSE /\ pcS' = "remainder"
            /\ UNCHANGED <<pos, features, written, file_count, split_result>>
    /\ UNCHANGED <<stream, chunk_size, splitRest>>

\* if !features.is_empty() { .. }  Ok(())
SplitRemainder ==
    /\ pcS = "remainder"
    /\ pcS' = "done"
    /\ IF features # <<>>
       THEN \E ok \in BOOLEAN :
              IF ok
              THEN /\ written' = Append(written, OutputFile(file_count, features))
                   /\ split_result' = Ok
              ELSE /\ split_result' = Err("io")
                   /\ UNCHANGED written
       ELSE /\ split_result' = Ok
            /\ UNCHANGED written
    /\ UNCHANGED <<stream, chunk_size, pos, features, file_count, splitRest>>

NextSplit == SplitOpen \/ SplitNext \/ SplitRemainder

SpecSplit == InitSplit /\ [][NextSplit]_vars

(***************************************************************************)
(* Properties of split_geojson (checked under SpecSplit)                   *)
(***************************************************************************)
\* the values of the output files, in the order of the files
RECURSIVE Written(_)
Written(fs) == IF fs = <<>> THEN <<>> ELSE fs[1].values \o Written(Tail(fs))

\* C15: when split_geojson returns Ok, with chunk_size = 0 all the values
\* read are in a single output file; with chunk_size = n > 0 every value
\* read is in exactly one output file, in input order, every output file
\* but the last holds exactly n values, and no output file is empty.
C15_SplitChunks ==
    split_result = Ok =>
        /\ Written(written) = stream.items
        /\ \A i \in DOMAIN written : written[i].values # <<>>
        /\ chunk_size = 0 => Len(written) <= 1
        /\ chunk_size > 0 =>
              /\ \A i \in 1..(Len(written) - 1) : Len(written[i].values) = chunk_size
              /\ \A i \in DOMAIN written : Len(written[i].values) <= chunk_size

\* what holds of the code: the part of the claim about chunk_size > 0, and
\* with chunk_size = 0 one output file for each value
SplitChunksAsCoded ==
    split_result = Ok =>
        /\ Written(written) = stream.items
        /\ \A i \in DOMAIN written : written[i].values # <<>>
        /\ chunk_size = 0 => \A i \in DOMAIN written : Len(written[i].values) = 1
        /\ chunk_size > 0 =>
              /\ \A i \in 1..(Len(written) - 1) : Len(written[i].values) = chunk_size
              /\ \A i \in DOMAIN written : Len(written[i].values) <= chunk_size

SplitChunksAsCodedWitness ==
    /\ split_result = Ok
    /\ chunk_size = 3
    /\ Len(written) = 2
    /\ Len(stream.items) = 4

(***************************************************************************)
(* insert_geojson over many files, seen from the pool                      *)
(*                                                                         *)
(* The tasks of a batch run the same code and differ only in their path,   *)
(* and the pool's connections are interchangeable: the tasks are counted   *)
(* by state (waiting in pool.get, running with a client, finished) and the *)
(* connections by state (idle in the pool, or inside a client).            *)
(***************************************************************************)
MaxPoolFiles == 18      \* files of a batch: more than the pool has connections

\* Pool::builder(manager).max_size(16).build(): max_size permits, no
\* connection made yet
new_pool == [permits |-> max_size, idle |-> 0, size |-> 0]

\* pool.get() with a fault: it does not wait for a permit
CanGetUnbounded(p) == TRUE

\* pool.get() waits until one of the permits is free
CanGet(p) == p.permits > 0

\* pool.get() returned a client: it wraps an idle connection when there is
\* one, a newly made connection otherwise
Get(p) ==
    [permits |-> p.permits - 1,
     idle |-> IF p.idle > 0 THEN p.idle - 1 ELSE 0,
     size |-> IF p.idle > 0 THEN p.size ELSE p.size + 1]

\* the drop of a client with a fault: the connection returns, the permit
\* does not
PutKeepsPermit(p) == [permits |-> p.permits, idle |-> p.idle + 1, size |-> p.size]

\* a client is dropped: its connection and its permit return to the pool
Put(p) == [permits |-> p.permits + 1, idle |-> p.idle + 1, size |-> p.size]

Batch(position, files, waiting, running, finished) ==
    [pc |-> position, files |-> files, waiting |-> waiting, running |-> running,
     finished |-> finished]

InitPool ==
    /\ IngestIdle
    /\ geom = None
    /\ wkt = None
    /\ decoded = None
    /\ CsvIdle
    /\ CopyIdle
    /\ SplitIdle
    /\ pool = None
    /\ clients = [main |-> 0, tasks |-> 0]
    /\ batch \in {Batch("new_pool", n, 0, 0, 0) : n \in 0..MaxPoolFiles}

poolRest == <<ingestVars, wktVars, csvVars, copyVars, splitVars>>

\* let pool = db::new_pool().await?;  (the path is taken to exist)
PoolNew ==
    /\ batch.pc = "new_pool"
    /\ \E ok \in BOOLEAN :
        IF ok THEN /\ pool' = new_pool
                   /\ batch' = [batch EXCEPT !.pc = "get_client"]
        ELSE /\ batch' = [batch EXCEPT !.pc = "done"]
             /\ UNCHANGED pool
    /\ UNCHANGED <<clients, poolRest>>

\* let client = pool.get().await?;
PoolGetClient ==
    /\ batch.pc = "get_client"
    /\ CanGet(pool)
    /\ \E ok \in BOOLEAN :
        IF ok THEN /\ pool' = Get(pool)
                   /\ clients' = [clients EXCEPT !.main = @ + 1]
                   /\ batch' = [batch EXCEPT !.pc = "create_geo_table"]
        ELSE /\ batch' = [batch EXCEPT !.pc = "done"]
             /\ UNCHANGED <<pool, clients>>
    /\ UNCHANGED poolRest

\* self.create_geo_table(&client, table_name).await?;
PoolCreateGeoTable ==
    /\ batch.pc = "create_geo_table"
    /\ \E ok \in BOOLEAN :
        IF ok THEN /\ batch' = [batch EXCEPT !.pc = "spawn"]
                   /\ UNCHANGED <<pool, clients>>
        ELSE /\ batch' = [batch EXCEPT !.pc = "done"]
             /\ pool' = Put(pool)
             /\ clients' = [clients EXCEPT !.main = @ - 1]
    /\ UNCHANGED poolRest

\* paths.into_iter().map(|path| tokio::spawn(..)): one task for each file
PoolSpawn ==
    /\ batch.pc = "spawn"
    /\ batch' = [batch EXCEPT !.pc = "join_all", !.waiting = batch.files]
    /\ UNCHANGED <<pool, clients, poolRest>>

\* a task: let mut client = pool.get().await.expect("Failed to get client");
PoolTaskGet ==
    /\ batch.waiting > 0
    /\ CanGet(pool)
    /\ \E ok \in BOOLEAN :
        IF ok THEN /\ pool' = Get(pool)
                   /\ clients' = [clients EXCEPT !.tasks = @ + 1]
                   /\ batch' = [batch EXCEPT !.waiting = @ - 1, !.running = @ + 1]
        ELSE /\ batch' = [batch EXCEPT !.waiting = @ - 1, !.finished = @ + 1]
             /\ UNCHANGED <<pool, clients>>
    /\ UNCHANGED poolRest

\* a task ends, by commit, by `?` or by a panic: its client drops
PoolTaskExit ==
    /\ batch.running > 0
    /\ pool' = Put(pool)
    /\ clients' = [clients EXCEPT !.tasks = @ - 1]
    /\ batch' = [batch EXCEPT !.running = @ - 1, !.finished = @ + 1]
    /\ UNCHANGED poolRest

\* join_all(futures).await and the return of insert_geojson: its client drops
PoolJoinAll ==
    /\ batch.pc = "join_all"
    /\ batch.waiting = 0
    /\ batch.running = 0
    /\ batch' = [batch EXCEPT !.pc = "done"]
    /\ pool' = Put(pool)
    /\ clients' = [clients EXCEPT !.main = @ - 1]
    /\ UNCHANGED poolRest

NextPool ==
    \/ PoolNew
    \/ PoolGetClient
    \/ PoolCreateGeoTable
    \/ PoolSpawn
    \/ PoolTaskGet
    \/ PoolTaskExit
    \/ PoolJoinAll

SpecPool == InitPool /\ [][NextPool]_vars

(***************************************************************************)
(* Properties of the pool (checked under SpecPool)                         *)
(***************************************************************************)
\* C19: for any number of files, the connections checked out of the pool,
\* by the schema step and by the tasks together, are never more than 16,
\* and no connection is held by two tasks: every connection made is either
\* idle in the pool or inside exactly one client, and every running task
\* has one client.
C19_BoundedExclusive ==
    pool # None =>
        /\ clients.main + clients.tasks <= 16
        /\ pool.size <= 16
        /\ clients.main + clients.tasks + pool.idle = pool.size
        /\ clients.tasks = batch.running
        /\ clients.main \in {0, 1}

\* the pool is exhausted: the schema step and fifteen tasks hold the sixteen
\* connections while two more tasks wait
C19_Witness ==
    /\ pool # None
    /\ clients.main = 1
    /\ clients.tasks = 15
    /\ pool.permits = 0
    /\ batch.waiting >= 2

(***************************************************************************)
(* Release of connections and transactions (checked under Spec)            *)
(***************************************************************************)
HeldSlots(c) == {sl \in Slots : conn[c][sl] # Free}

\* C20: a task that has ended, by commit, by an error or by a panic, holds
\* no connection and no open transaction; once all the tasks of a batch
\* have ended, the only connection checked out of the batch's pool is the
\* one insert_geojson took for the schema step.
C20_JobsReleaseOnExit ==
    \A c \in Calls :
        /\ \A j \in DOMAIN jobs[c] :
              jobs[c][j].pc = "done" =>
                 /\ \A sl \in Slots : conn[c][sl] # <<"task", j>>
                 /\ jobs[c][j].pending = {}
                 /\ jobs[c][j].res # None
        /\ (/\ pc[c] \in {"join_all", "row_count"}
            /\ \A j \in DOMAIN jobs[c] : jobs[c][j].pc = "done") =>
              /\ Cardinality(HeldSlots(c)) = 1
              /\ \A sl \in HeldSlots(c) : conn[c][sl] = <<"main">>

\* a batch of two tasks, one committed and one failed at commit, both ended,
\* before insert_geojson returns
C20_Witness ==
    \E c \in Calls :
        /\ pc[c] = "join_all"
        /\ Len(jobs[c]) = 2
        /\ jobs[c][1].res = Ok
        /\ jobs[c][2].res = DbError(2, "commit")
        /\ Cardinality(HeldSlots(c)) = 1

(***************************************************************************)
(* One task for each path (checked under Spec)                             *)
(***************************************************************************)
\* how far a task has come
StepOf(position) ==
    CASE position = "get_client" -> 1
      [] position = "process" -> 2
      [] position = "transaction" -> 3
      [] position = "execute" -> 4
      [] position = "commit" -> 5
      [] position = "done" -> 6

\* insert_geojson has spawned its tasks
Spawned(c) == pc[c] \in {"join_all", "row_count"} \/ Joined(c)

\* in a call that has spawned, the tasks are the paths found, one for one
OneJobPerPath ==
    \A c \in Calls :
        /\ Spawned(c) =>
              /\ paths[c] = arg[c].input.listing
              /\ Len(jobs[c]) = Len(paths[c])
              /\ \A i \in DOMAIN jobs[c] : jobs[c][i].path = paths[c][i]
              /\ \A i, k \in DOMAIN jobs[c] : i # k => jobs[c][i].path # jobs[c][k].path
        /\ ~Spawned(c) => jobs[c] = <<>>

\* a task never goes back to an earlier step, keeps its path, and once it
\* has ended, with success or with a failure, it stays as it ended
NoRerun ==
    \A c \in Calls : \A j \in DOMAIN jobs[c] :
        /\ j \in DOMAIN jobs'[c]
        /\ jobs'[c][j].path = jobs[c][j].path
        /\ StepOf(jobs'[c][j].pc) >= StepOf(jobs[c][j].pc)
        /\ StepOf(jobs'[c][j].pc) <= StepOf(jobs[c][j].pc) + 1 \/ jobs'[c][j].pc = "done"
        /\ jobs[c][j].pc = "done" => jobs'[c][j] = jobs[c][j]

\* C21: in a call whose schema step succeeded, every path found yields
\* exactly one task, no path is left out and none is taken twice; a task
\* runs through its steps once and a task that failed is never run again.
C21_ExactlyOnce == []OneJobPerPath /\ [][NoRerun]_vars

\* a batch of two paths has returned, one task committed, the other failed
\* in its insert
C21_Witness ==
    \E c \in Calls :
        /\ pc[c] = "done"
        /\ Len(paths[c]) = 2
        /\ Len(jobs[c]) = 2
        /\ jobs[c][1].res = DbError(1, "insert")
        /\ jobs[c][2].res = Ok

(***************************************************************************)
(* Liveness of a batch                                                     *)
(*                                                                         *)
(* The tokio runtime polls every task that can make progress, and the pool *)
(* and the database answer every request (with a result or an error): a    *)
(* step that stays possible is eventually taken.                           *)
(***************************************************************************)
PoolFairness ==
    /\ WF_vars(PoolNew)
    /\ WF_vars(PoolGetClient)
    /\ WF_vars(PoolCreateGeoTable)
    /\ WF_vars(PoolSpawn)
    /\ WF_vars(PoolTaskGet)
    /\ WF_vars(PoolTaskExit)
    /\ WF_vars(PoolJoinAll)

SpecPoolFair == InitPool /\ [][NextPool]_vars /\ PoolFairness

\* insert_geojson returns from join_all only with every task ended
ReturnsAfterTasks ==
    (batch.pc = "join_all" /\ batch'.pc = "done") =>
        (batch.finished = batch.files /\ batch.waiting = 0 /\ batch.running = 0)

\* C22: under fair scheduling, for every number of files, also more than
\* the pool has connections: a task waiting in pool.get eventually leaves
\* it, every task of a batch that was spawned eventually ends,
\* insert_geojson eventually returns, and it returns only when every task
\* it spawned has ended.
C22_BatchTerminates ==
    /\ \A n \in 1..(MaxPoolFiles + 1) : (batch.waiting = n) ~> (batch.waiting < n)
    /\ (batch.pc = "join_all") ~> (batch.finished = batch.files)
    /\ <>(batch.pc = "done")
    /\ [](batch.pc = "done" => (batch.waiting = 0 /\ batch.running = 0))
    /\ [][ReturnsAfterTasks]_vars

\* a batch of more files than the pool has connections has returned with
\* all its tasks ended
C22_Witness ==
    /\ batch.pc = "done"
    /\ batch.files >= 17
    /\ batch.finished = batch.files
    /\ clients.tasks = 0

(***************************************************************************)
(* The name of a row and the UNIQUE constraint on it                       *)
(***************************************************************************)
\* s is what stands in path after its last '/' and before the first '.'
\* that follows
IsStem(s, path) ==
    \E i \in 0..Len(path), k \in 0..Len(path) :
        /\ i <= k
        /\ i = 0 \/ path[i] = "/"
        /\ \A m \in (i + 1)..Len(path) : path[m] # "/"
        /\ \A m \in (i + 1)..k : path[m] # "."
        /\ k = Len(path) \/ path[k + 1] = "."
        /\ s = SubSeq(path, i + 1, k)

\* the files of one table's batches that agree up to the first dot
SameNames ==
    {f \in Files \X Files :
        \E s \in {SubSeq(f[1], a, b) : a \in 1..Len(f[1]), b \in 0..Len(f[1])} :
            IsStem(s, f[1]) /\ IsStem(s, f[2])}

SameName(p, q) == <<p, q>> \in SameNames

\* the row of every file that is JSON is named by the file's stem
NamesAreStems == \A p \in Files : WellFormed(p) => IsStem(RowOf(p).name, p)

\* C23: the name of the row of a file is its base name cut at the first '.';
\* no table ever holds two rows of one name; of two tasks for files of the
\* same name on one table, in one call or in two, at most one commits; a
\* call that has returned after spawning two such tasks has a failed task
\* among the two and returns an error; of two calls on one table with files
\* of the same name at most one returns Ok.
C23_UniqueName ==
    /\ NamesAreStems
    /\ \A t \in TableNames : \A r1, r2 \in rows[t] : r1.name = r2.name => r1 = r2
    /\ \A c, d \in Calls :
         arg[c].table_name = arg[d].table_name =>
            \A j \in DOMAIN jobs[c] :
                jobs[c][j].res = Ok =>
                    \A k \in DOMAIN jobs[d] :
                        (jobs[d][k].res = Ok /\ <<c, j>> # <<d, k>>)
                            => ~SameName(jobs[c][j].path, jobs[d][k].path)
    /\ \A c \in Calls :
         (pc[c] = "done" /\ Len(jobs[c]) > 1) =>
            \A j, k \in DOMAIN jobs[c] :
                (j < k /\ SameName(jobs[c][j].path, jobs[c][k].path)) =>
                    /\ IsErr(result[c])
                    /\ IsErr(jobs[c][j].res) \/ IsErr(jobs[c][k].res)
    /\ \A c, d \in Calls :
         (/\ result[c] = Ok
          /\ result[d] = Ok
          /\ c # d
          /\ arg[c].table_name = arg[d].table_name)
            => \A p \in Range(arg[c].input.listing), q \in Range(arg[d].input.listing) :
                  ~SameName(p, q)

\* a directory of d/a.j and e/a.g was ingested: one file is stored, the
\* other task met the unique constraint, and the call returned an error
C23_Witness ==
    \E c \in Calls :
        /\ pc[c] = "done"
        /\ Range(paths[c]) = {GoodPath, TwinPath}
        /\ \E j, k \in DOMAIN jobs[c] :
            /\ jobs[c][j].res = Ok
            /\ jobs[c][k].res = DbError(k, "unique_violation")
            /\ rows[arg[c].table_name] = {RowOf(jobs[c][j].path)}
        /\ IsErr(result[c])

====
